---- MODULE Spec2Model ----
(***************************************************************************)
(* Cloud object cache layer of the media server: the StorageManager        *)
(* singleton (server/managers/StorageManager.js, in its archive-keyed and  *)
(* its filename-keyed revision), as a state machine.  Every action is one  *)
(* synchronous run of JavaScript between two awaits: a call up to its      *)
(* first await, or the continuation that runs when the object store        *)
(* answers a request.  The permission migration (migrations/v2.31.0) and   *)
(* the save-to-cloud button of the client's file row are modelled the same *)
(* way, each under a specification of its own.                             *)
(***************************************************************************)
EXTENDS Integers, Sequences, FiniteSets

\* ------------------------------------------------------------------------
\* Bounds of the model
\* ------------------------------------------------------------------------

\* init() calls that may be in flight (awaiting the bucket probe) at once
MaxInits == 2

\* cache operations that may be in flight (awaiting the store) at once
MaxOps == 1

\* objects the store may come to hold
MaxObjects == 1

\* length of the file names the key derivation is applied to
MaxNameLen == 4

\* rows of the users table
MaxUsers == 2

\* runs of the permission migration, up or down
MaxRuns == 2

\* file rows the client shows
MaxRows == 2

\* saveToCloud requests one file row may issue
MaxRequests == 2

InitIds == 1..MaxInits
OpIds == 1..MaxOps

\* ------------------------------------------------------------------------
\* Values
\* ------------------------------------------------------------------------

\* JavaScript null for this.bucket
NULL == "<null>"

\* JavaScript null for this.s3Client
NullClient == [isNull |-> TRUE]

\* a missing / empty setting ("" and undefined are both falsy)
Missing == ""

\* the expiresIn argument left out by the caller
Undefined == -1

\* getSignedUrlForZipFile(itemId, expiresIn = 3600)
DefaultExpiresIn == 3600

\* zipFileExists(itemId, filename = 'audio.mp3')
DefaultFileName == <<"a", "u", "d", "i", "o", ".", "m", "p", "3">>

Regions == {Missing, "us-east-1"}
Buckets == {Missing, "b1", "b2"}
AccessKeys == {Missing, "AK"}
SecretKeys == {Missing, "SK"}

\* Database.serverSettings as init() may read it
Settings ==
  [cloudStorageEnabled : BOOLEAN,
   cloudStorageS3Region : Regions,
   cloudStorageS3Bucket : Buckets,
   cloudStorageS3AccessKey : AccessKeys,
   cloudStorageS3SecretKey : SecretKeys]

\* item identifiers and file names the callers pass, as character sequences
ItemIds == {<<"i", "1">>, <<"i", "2">>}
FileNames == {<<"A", ".", "Z">>, <<"=">>}

\* payload shapes: Buffer.isBuffer(data) or a stream
Payloads == {"buffer", "stream"}

\* expiresIn arguments
Expiries == {Undefined, 60}

\* failures the object store may answer a request with, by error name
ProbeFailures == {"Forbidden"}
HeadFailures == {"AccessDenied"}
SignFailures == {"CredentialsProviderError"}
UploadFailures == {"AccessDenied"}

\* ------------------------------------------------------------------------
\* Strings: character sequences and the JavaScript string methods used
\* ------------------------------------------------------------------------

LowerLetters ==
  <<"a", "b", "c", "d", "e", "f", "g", "h", "i", "j", "k", "l", "m",
    "n", "o", "p", "q", "r", "s", "t", "u", "v", "w", "x", "y", "z">>

UpperLetters ==
  <<"A", "B", "C", "D", "E", "F", "G", "H", "I", "J", "K", "L", "M",
    "N", "O", "P", "Q", "R", "S", "T", "U", "V", "W", "X", "Y", "Z">>

Range(s) == {s[i] : i \in DOMAIN s}

LowerSet == Range(LowerLetters)
UpperSet == Range(UpperLetters)
DigitSet == {"0", "1", "2", "3", "4", "5", "6", "7", "8", "9"}

\* the characters the regular expression class \s matches
WhitespaceSet == {" ", "\t", "\n"}

\* String.prototype.toLowerCase, one character
lowerChar(c) ==
  IF c \in UpperSet
    THEN LowerLetters[CHOOSE i \in DOMAIN UpperLetters : UpperLetters[i] = c]
    ELSE c

toLowerCase(s) == [i \in DOMAIN s |-> lowerChar(s[i])]

\* String.prototype.lastIndexOf (0-based, -1 when absent)
lastIndexOf(s, c) ==
  LET at == {i \in DOMAIN s : s[i] = c}
  IN IF at = {} THEN -1 ELSE (CHOOSE i \in at : \A j \in at : j <= i) - 1

\* String.prototype.substring(from) and substring(0, to), 0-based
substringFrom(s, from) == SubSeq(s, from + 1, Len(s))
substringTo(s, to) == SubSeq(s, 1, to)

\* replace(/[^a-zA-Z0-9\s\/]/g, ' ')
replaceUnsafe(s) ==
  [i \in DOMAIN s |->
    IF s[i] \in LowerSet \cup UpperSet \cup DigitSet \cup WhitespaceSet \cup {"/"}
      THEN s[i] ELSE " "]

\* String.prototype.trim
trim(s) ==
  LET keep == {i \in DOMAIN s : s[i] \notin WhitespaceSet}
  IN IF keep = {} THEN <<>>
     ELSE SubSeq(s, CHOOSE i \in keep : \A j \in keep : i <= j,
                    CHOOSE i \in keep : \A j \in keep : j <= i)

\* replace(/\s+/g, ' ')
RECURSIVE collapseWhitespace(_)
collapseWhitespace(s) ==
  IF s = <<>> THEN <<>>
  ELSE IF Head(s) \in WhitespaceSet
    THEN IF Len(s) > 1 /\ s[2] \in WhitespaceSet
           THEN collapseWhitespace(Tail(s))
           ELSE <<" ">> \o collapseWhitespace(Tail(s))
    ELSE <<Head(s)>> \o collapseWhitespace(Tail(s))

\* replace(/\s/g, '-')
dashWhitespace(s) == [i \in DOMAIN s |-> IF s[i] \in WhitespaceSet THEN "-" ELSE s[i]]

\* an extension appended as it is
stripExtKeepAll(s) == s

\* replace(/[^a-z0-9.]/g, '')
stripExt(s) == SelectSeq(s, LAMBDA c : c \in LowerSet \cup DigitSet \cup {"."})

\* replace(/^\//, '')
stripLeadingSlash(s) == IF s # <<>> /\ Head(s) = "/" THEN Tail(s) ELSE s

\* StorageManager.s3SafeFileName
s3SafeFileName(fileName) ==
  LET dot == lastIndexOf(fileName, ".")
      ext == IF dot > 0 THEN substringFrom(fileName, dot) ELSE <<>>
      nameWithoutExt == IF ext # <<>> THEN substringTo(fileName, dot) ELSE fileName
      safeName ==
        dashWhitespace(toLowerCase(collapseWhitespace(trim(replaceUnsafe(nameWithoutExt)))))
      safeExt == stripExt(toLowerCase(ext))
  IN stripLeadingSlash(safeName) \o safeExt

\* StorageManager.getKey: `audiobooks/${itemId}.zip`
getKey(itemId) ==
  <<"a", "u", "d", "i", "o", "b", "o", "o", "k", "s", "/">> \o itemId \o <<".", "z", "i", "p">>

\* ------------------------------------------------------------------------
\* Results, errors and requests
\* ------------------------------------------------------------------------

Returned(v) == [type |-> "return", value |-> v]
Thrown(e) == [type |-> "throw", error |-> e]

JsUndefined == [kind |-> "undefined"]
JsNull == [kind |-> "null"]
JsBool(b) == [kind |-> "boolean", bool |-> b]
JsString(s) == [kind |-> "string", chars |-> s]
JsUrl(u) == [kind |-> "url", url |-> u]

\* new Error(message)
Error(message) == [name |-> "Error", message |-> message]

\* the error the object-store client rejects a request with
ServiceError(name) == [name |-> name, message |-> name]

\* evaluating an identifier that is declared nowhere
ReferenceError(identifier) ==
  [name |-> "ReferenceError", message |-> identifier \o " is not defined"]

NotInitializedError == Error("S3 storage not initialized")

\* new S3Client(clientConfig)
S3Client(settings) ==
  [isNull |-> FALSE,
   region |-> settings.cloudStorageS3Region,
   accessKeyId |-> settings.cloudStorageS3AccessKey,
   secretAccessKey |-> settings.cloudStorageS3SecretKey]

NoContentType == "<none>"

HeadBucketCommand(client, b) == [type |-> "HeadBucket", client |-> client, Bucket |-> b]

PutObjectCommand(client, b, key, body, contentType) ==
  [type |-> "PutObject", client |-> client, Bucket |-> b, Key |-> key,
   Body |-> body, ContentType |-> contentType]

Upload(client, b, key, body, contentType) ==
  [type |-> "Upload", client |-> client, Bucket |-> b, Key |-> key,
   Body |-> body, ContentType |-> contentType]

HeadObjectCommand(client, b, key) ==
  [type |-> "HeadObject", client |-> client, Bucket |-> b, Key |-> key]

\* getSignedUrl(client, new GetObjectCommand({Bucket, Key}), {expiresIn})
GetSignedUrlRequest(client, b, key, expiresIn) ==
  [type |-> "getSignedUrl", client |-> client, Bucket |-> b, Key |-> key,
   expiresIn |-> expiresIn]

\* what the presigner answers: a URL for one object of one bucket, valid for
\* expiresIn seconds, signed with the client's credentials
SignedUrl(request) ==
  [Bucket |-> request.Bucket, Key |-> request.Key, expiresIn |-> request.expiresIn,
   accessKeyId |-> request.client.accessKeyId]

\* ------------------------------------------------------------------------
\* State
\* ------------------------------------------------------------------------

VARIABLES
  s3Client,       \* this.s3Client
  bucket,         \* this.bucket
  isInitialized,  \* this.isInitialized
  isS3Enabled,    \* this.isS3Enabled
  inits,          \* init() calls awaiting the bucket probe
  ops,            \* cache operations awaiting the object store
  objects,        \* the object store: the <<bucket, key>> pairs that hold an object
  lastInit,       \* how the init() call that finished last ended
  probed,         \* the <<client, bucket>> pairs whose bucket probe has succeeded
  ev,             \* the step just taken: the call, its arguments, what it sent and returned
  users,          \* the users table of the database
  migration,      \* the run of the permission migration in progress, and the runs completed
  rows            \* the LibraryFilesTableRow components of the client

vars ==
  <<s3Client, bucket, isInitialized, isS3Enabled, inits, ops, objects, lastInit, probed, ev,
    users, migration, rows>>

\* the StorageManager and its calls
storage ==
  <<s3Client, bucket, isInitialized, isS3Enabled, inits, ops, objects, lastInit, probed, ev>>

\* what no StorageManager method touches
elsewhere == <<users, migration, rows>>

UserIds == 1..MaxUsers
RowIds == 1..MaxRows

\* a database without users table
NoTable == [exists |-> FALSE, rows |-> <<>>]

\* no migration has run
NoMigration ==
  [pc |-> "idle", dir |-> "none", snapshot |-> <<>>, i |-> 0, before |-> NoTable,
   history |-> <<>>]

\* data() of LibraryFilesTableRow, and what the component has done so far
NewRow == [savingsToCloud |-> FALSE, inFlight |-> 0, requests |-> 0, toast |-> "none"]

manager == <<s3Client, bucket, isInitialized, isS3Enabled>>

IdleCall == [pc |-> "idle"]

\* the slot a new call takes
FreeSlot(calls, ids) ==
  IF \E i \in ids : calls[i].pc = "idle"
    THEN CHOOSE i \in ids : calls[i].pc = "idle" /\ \A j \in ids : calls[j].pc = "idle" => i <= j
    ELSE 0

InitInFlight == \E p \in InitIds : inits[p].pc # "idle"

\* the manager as a call finds it
Before ==
  [s3Client |-> s3Client, bucket |-> bucket, isInitialized |-> isInitialized,
   initInFlight |-> InitInFlight, lastInit |-> lastInit]

\* StorageManager constructor
Init ==
  /\ s3Client = NullClient
  /\ bucket = NULL
  /\ isInitialized = FALSE
  /\ isS3Enabled = FALSE
  /\ inits = [p \in InitIds |-> IdleCall]
  /\ ops = [o \in OpIds |-> IdleCall]
  /\ objects = {}
  /\ lastInit = "none"
  /\ probed = {}
  /\ users = NoTable
  /\ migration = NoMigration
  /\ rows = [r \in RowIds |-> NewRow]
  /\ ev = [op |-> "none", phase |-> "none", step |-> "none"]

\* ------------------------------------------------------------------------
\* Lifecycle: init, initS3Storage, testS3Connection
\* ------------------------------------------------------------------------

NoError == [name |-> "none", message |-> ""]

\* initS3Storage: the two configuration checks, before anything is constructed
initS3StorageCheck(settings) ==
  IF settings.cloudStorageS3Region = Missing \/ settings.cloudStorageS3Bucket = Missing
    THEN Error("S3 storage requires region and bucket configuration")
  ELSE IF settings.cloudStorageS3AccessKey = Missing \/ settings.cloudStorageS3SecretKey = Missing
    THEN Error("S3 storage requires access key and secret key")
  ELSE NoError

\* init: whether the call goes on to initS3Storage
initProceeds(settings) == settings.cloudStorageEnabled

\* init() up to its return or to the await of the bucket probe
init(p, settings) ==
  /\ p = FreeSlot(inits, InitIds)
  /\ UNCHANGED <<isInitialized, isS3Enabled, ops, objects, probed, elsewhere>>
  /\ IF ~initProceeds(settings)
       THEN /\ UNCHANGED <<s3Client, bucket, inits>>
            /\ lastInit' = "disabled"
            /\ ev' = [op |-> "init", phase |-> "return", step |-> "call",
                      settings |-> settings, before |-> Before,
                      result |-> Returned(JsUndefined),
                      constructed |-> FALSE, sent |-> <<>>]
     ELSE IF initS3StorageCheck(settings) # NoError
       THEN /\ UNCHANGED <<s3Client, bucket, inits>>
            /\ lastInit' = "failed"
            /\ ev' = [op |-> "init", phase |-> "return", step |-> "call",
                      settings |-> settings, before |-> Before,
                      result |-> Thrown(initS3StorageCheck(settings)),
                      constructed |-> FALSE, sent |-> <<>>]
     ELSE /\ s3Client' = S3Client(settings)
          /\ bucket' = settings.cloudStorageS3Bucket
          /\ inits' = [inits EXCEPT ![p] =
               [pc |-> "testS3Connection",
                request |-> HeadBucketCommand(s3Client', bucket')]]
          /\ UNCHANGED lastInit
          /\ ev' = [op |-> "init", phase |-> "await", step |-> "call",
                    settings |-> settings, before |-> Before, constructed |-> TRUE,
                    sent |-> <<HeadBucketCommand(s3Client', bucket')>>]

\* testS3Connection: the error a failed bucket probe is rethrown as
testS3ConnectionError(cause) == Error("S3 bucket access failed: " \o cause.message)

\* the bucket probe answers: testS3Connection, initS3Storage and init finish
testS3ConnectionDone(p, outcome) ==
  /\ inits[p].pc = "testS3Connection"
  /\ inits' = [inits EXCEPT ![p] = IdleCall]
  /\ UNCHANGED <<s3Client, bucket, isS3Enabled, ops, objects, elsewhere>>
  /\ IF outcome = "ok"
       THEN /\ isInitialized' = TRUE
            /\ lastInit' = "ok"
            /\ probed' = probed \cup {<<inits[p].request.client, inits[p].request.Bucket>>}
            /\ ev' = [op |-> "init", phase |-> "return", step |-> "resume",
                      answer |-> outcome, result |-> Returned(JsUndefined),
                      constructed |-> TRUE, sent |-> <<inits[p].request>>]
       ELSE /\ UNCHANGED <<isInitialized, probed>>
            /\ lastInit' = "failed"
            /\ ev' = [op |-> "init", phase |-> "return", step |-> "resume",
                      answer |-> outcome,
                      result |-> Thrown(testS3ConnectionError(ServiceError(outcome))),
                      constructed |-> TRUE, sent |-> <<inits[p].request>>]

\* ------------------------------------------------------------------------
\* Cache operations
\* ------------------------------------------------------------------------

\* a guard that tests the client handle instead of the flag
notInitializedByHandle == s3Client = NullClient

\* the guard of cacheZipFile, cacheFile, getSignedUrlForZipFile, getSignedUrlForFile
notInitialized == ~isInitialized

\* the guard of zipFileExists
existsDisabled == ~isInitialized \/ ~isS3Enabled

\* an expiresIn without its default
expiresInAsPassed(expiresIn) == expiresIn

\* expiresIn = 3600: the default applies when the argument is left out
expiresInOrDefault(expiresIn) == IF expiresIn = Undefined THEN DefaultExpiresIn ELSE expiresIn

\* a call that returns or throws before its first await
ReturnNow(op, args, result) ==
  /\ UNCHANGED <<manager, inits, ops, objects, lastInit, probed, elsewhere>>
  /\ ev' = [op |-> op, phase |-> "return", step |-> "call", args |-> args,
            before |-> Before, result |-> result, sent |-> <<>>]

\* a call that sends its first request and awaits the answer
SendFirst(o, op, args, key, request) ==
  /\ UNCHANGED <<manager, inits, objects, lastInit, probed, elsewhere>>
  /\ ops' = [ops EXCEPT ![o] =
       [pc |-> request.type, op |-> op, args |-> args, key |-> key, sent |-> <<request>>]]
  /\ ev' = [op |-> op, phase |-> "await", step |-> "call", args |-> args,
            before |-> Before, sent |-> <<request>>]

\* a call that sends a further request from a continuation
SendNext(o, outcome, request) ==
  /\ UNCHANGED <<manager, inits, objects, lastInit, probed, elsewhere>>
  /\ ops' = [ops EXCEPT ![o].pc = request.type, ![o].sent = Append(@, request)]
  /\ ev' = [op |-> ops[o].op, phase |-> "await", step |-> "resume", args |-> ops[o].args,
            answer |-> outcome, sent |-> Append(ops[o].sent, request)]

\* a call that returns or throws from a continuation
Finish(o, outcome, result) ==
  /\ UNCHANGED <<manager, inits, lastInit, probed, elsewhere>>
  /\ ops' = [ops EXCEPT ![o] = IdleCall]
  /\ ev' = [op |-> ops[o].op, phase |-> "return", step |-> "resume", args |-> ops[o].args,
            answer |-> outcome, result |-> result, sent |-> ops[o].sent]

\* the store has room for the object a store call would write under key
StoreHasRoom(key) == Cardinality(objects \cup {<<bucket, key>>}) <= MaxObjects

\* the request cacheZipFile / cacheFile sends for a payload
storeRequest(key, data, contentType) ==
  IF data = "buffer"
    THEN PutObjectCommand(s3Client, bucket, key, data, contentType)
    ELSE Upload(s3Client, bucket, key, data, contentType)

\* cacheZipFile(itemId, data) up to its first await
cacheZipFile(o, itemId, data) ==
  /\ o = FreeSlot(ops, OpIds)
  /\ notInitialized \/ StoreHasRoom(getKey(itemId))
  /\ IF notInitialized
       THEN ReturnNow("cacheZipFile", [itemId |-> itemId, data |-> data],
                      Thrown(NotInitializedError))
       ELSE SendFirst(o, "cacheZipFile", [itemId |-> itemId, data |-> data],
                      getKey(itemId),
                      storeRequest(getKey(itemId), data, "application/zip"))

\* cacheFile(fileName, data) up to its first await
cacheFile(o, fileName, data) ==
  /\ o = FreeSlot(ops, OpIds)
  /\ notInitialized \/ StoreHasRoom(s3SafeFileName(fileName))
  /\ IF notInitialized
       THEN ReturnNow("cacheFile", [fileName |-> fileName, data |-> data],
                      Thrown(NotInitializedError))
       ELSE SendFirst(o, "cacheFile", [fileName |-> fileName, data |-> data],
                      s3SafeFileName(fileName),
                      storeRequest(s3SafeFileName(fileName), data, NoContentType))

\* the catch block of cacheZipFile and of cacheFile: its log line reads bookId,
\* which neither function declares
cacheCatch(error) == Thrown(ReferenceError("bookId"))

\* the put or the multipart upload answers
storeDone(o, type, outcome) ==
  /\ ops[o].pc = type
  /\ IF outcome = "ok"
       THEN /\ objects' = objects \cup
                 {<<ops[o].sent[Len(ops[o].sent)].Bucket, ops[o].sent[Len(ops[o].sent)].Key>>}
            /\ Finish(o, outcome, Returned(JsString(ops[o].key)))
       ELSE /\ UNCHANGED objects
            /\ Finish(o, outcome, cacheCatch(ServiceError(outcome)))

\* await this.s3Client.send(command) of the store path
putObjectDone(o, outcome) == storeDone(o, "PutObject", outcome)

\* await upload.done()
uploadDone(o, outcome) == storeDone(o, "Upload", outcome)

\* getSignedUrlForZipFile(itemId, expiresIn) up to its first await
getSignedUrlForZipFile(o, itemId, expiresIn) ==
  /\ o = FreeSlot(ops, OpIds)
  /\ IF notInitialized
       THEN ReturnNow("getSignedUrlForZipFile", [itemId |-> itemId, expiresIn |-> expiresIn],
                      Thrown(NotInitializedError))
       ELSE SendFirst(o, "getSignedUrlForZipFile",
                      [itemId |-> itemId, expiresIn |-> expiresIn],
                      getKey(itemId), HeadObjectCommand(s3Client, bucket, getKey(itemId)))

\* getSignedUrlForFile(fileName, expiresIn) up to its first await
getSignedUrlForFile(o, fileName, expiresIn) ==
  /\ o = FreeSlot(ops, OpIds)
  /\ IF notInitialized
       THEN ReturnNow("getSignedUrlForFile", [fileName |-> fileName, expiresIn |-> expiresIn],
                      Returned(JsNull))
       ELSE SendFirst(o, "getSignedUrlForFile",
                      [fileName |-> fileName, expiresIn |-> expiresIn],
                      s3SafeFileName(fileName),
                      HeadObjectCommand(s3Client, bucket, s3SafeFileName(fileName)))

\* a key for the file instead of the item
zipFileExistsKeyOfFile(itemId, filename) == getKey(itemId \o <<"/">> \o filename)

\* const key = this.getKey(itemId, filename): getKey takes one parameter
zipFileExistsKey(itemId, filename) == getKey(itemId)

\* const key = this.s3SafeFileName(itemId, filename): s3SafeFileName takes one parameter
zipFileExistsSafeNameKey(itemId, filename) == s3SafeFileName(itemId)

\* zipFileExists(itemId, filename) of the archive-keyed revision, up to its first await
zipFileExists(o, itemId, filename) ==
  /\ o = FreeSlot(ops, OpIds)
  /\ IF existsDisabled
       THEN ReturnNow("zipFileExists", [itemId |-> itemId, filename |-> filename],
                      Returned(JsBool(FALSE)))
       ELSE SendFirst(o, "zipFileExists", [itemId |-> itemId, filename |-> filename],
                      zipFileExistsKey(itemId, filename),
                      HeadObjectCommand(s3Client, bucket, zipFileExistsKey(itemId, filename)))

\* zipFileExists(itemId, filename) of the filename-keyed revision, up to its first await
zipFileExistsSafeName(o, itemId, filename) ==
  /\ o = FreeSlot(ops, OpIds)
  /\ IF existsDisabled
       THEN ReturnNow("zipFileExistsSafeName", [itemId |-> itemId, filename |-> filename],
                      Returned(JsBool(FALSE)))
       ELSE SendFirst(o, "zipFileExistsSafeName", [itemId |-> itemId, filename |-> filename],
                      zipFileExistsSafeNameKey(itemId, filename),
                      HeadObjectCommand(s3Client, bucket,
                                        zipFileExistsSafeNameKey(itemId, filename)))

isNotFound(error) == error.name = "NotFound" \/ error.name = "NoSuchKey"

\* the catch block of getSignedUrlForZipFile
getSignedUrlForZipFileCatch(error) ==
  IF isNotFound(error) THEN Returned(JsNull) ELSE Thrown(error)

\* the catch block of getSignedUrlForFile: its log line reads itemId, which the
\* function does not declare, before the return null is reached
getSignedUrlForFileCatch(error) ==
  IF isNotFound(error) THEN Returned(JsNull) ELSE Thrown(ReferenceError("itemId"))

\* the catch block of zipFileExists: its log line reads bookId, which the
\* function does not declare, before the return false is reached
zipFileExistsCatch(error) ==
  IF isNotFound(error) THEN Returned(JsBool(FALSE)) ELSE Thrown(ReferenceError("bookId"))

IsSignedUrlOp(op) == op \in {"getSignedUrlForZipFile", "getSignedUrlForFile"}

signedUrlCatch(op, error) ==
  IF op = "getSignedUrlForZipFile"
    THEN getSignedUrlForZipFileCatch(error)
    ELSE getSignedUrlForFileCatch(error)

\* the object store's answer to a head request: the object is there or it is not
headAnswer(request) ==
  IF <<request.Bucket, request.Key>> \in objects THEN "ok" ELSE "NotFound"

\* the signing request getSignedUrlFor* issues once the head probe succeeded
signRequest(o) ==
  GetSignedUrlRequest(s3Client, bucket, ops[o].key, expiresInOrDefault(ops[o].args.expiresIn))

\* the head probe answers: await this.s3Client.send(headCommand)
headObjectDone(o, outcome) ==
  /\ ops[o].pc = "HeadObject"
  /\ outcome \in {headAnswer(ops[o].sent[1])} \cup HeadFailures
  /\ UNCHANGED objects
  /\ IF IsSignedUrlOp(ops[o].op)
       THEN IF outcome = "ok"
              THEN SendNext(o, outcome, signRequest(o))
              ELSE Finish(o, outcome, signedUrlCatch(ops[o].op, ServiceError(outcome)))
       ELSE IF outcome = "ok"
              THEN Finish(o, outcome, Returned(JsBool(TRUE)))
              ELSE Finish(o, outcome, zipFileExistsCatch(ServiceError(outcome)))

\* the presigner answers: await getSignedUrl(this.s3Client, command, { expiresIn })
getSignedUrlDone(o, outcome) ==
  /\ ops[o].pc = "getSignedUrl"
  /\ UNCHANGED objects
  /\ IF outcome = "ok"
       THEN Finish(o, outcome, Returned(JsUrl(SignedUrl(ops[o].sent[Len(ops[o].sent)]))))
       ELSE Finish(o, outcome, signedUrlCatch(ops[o].op, ServiceError(outcome)))

\* ------------------------------------------------------------------------
\* Specification
\* ------------------------------------------------------------------------

ExistsFileNames == {DefaultFileName, <<"x">>}

\* the settings init() reads while cache operations run: the two reachable
\* buckets, storage switched off, and one setting of each check missing
ValidSettings(b) ==
  [cloudStorageEnabled |-> TRUE, cloudStorageS3Region |-> "us-east-1",
   cloudStorageS3Bucket |-> b, cloudStorageS3AccessKey |-> "AK",
   cloudStorageS3SecretKey |-> "SK"]

ServingSettings ==
  {ValidSettings("b1"), ValidSettings("b2"),
   [ValidSettings("b1") EXCEPT !.cloudStorageEnabled = FALSE],
   [ValidSettings("b1") EXCEPT !.cloudStorageS3Bucket = Missing],
   [ValidSettings("b2") EXCEPT !.cloudStorageS3SecretKey = Missing]}

Next ==
  \/ \E p \in InitIds, settings \in ServingSettings : init(p, settings)
  \/ \E p \in InitIds, outcome \in {"ok"} \cup ProbeFailures : testS3ConnectionDone(p, outcome)
  \/ \E o \in OpIds, itemId \in ItemIds, data \in Payloads : cacheZipFile(o, itemId, data)
  \/ \E o \in OpIds, fileName \in FileNames, data \in Payloads : cacheFile(o, fileName, data)
  \/ \E o \in OpIds, outcome \in {"ok"} \cup UploadFailures : putObjectDone(o, outcome)
  \/ \E o \in OpIds, outcome \in {"ok"} \cup UploadFailures : uploadDone(o, outcome)
  \/ \E o \in OpIds, itemId \in ItemIds, expiresIn \in Expiries :
       getSignedUrlForZipFile(o, itemId, expiresIn)
  \/ \E o \in OpIds, fileName \in FileNames, expiresIn \in Expiries :
       getSignedUrlForFile(o, fileName, expiresIn)
  \/ \E o \in OpIds, itemId \in ItemIds, filename \in ExistsFileNames :
       zipFileExists(o, itemId, filename)
  \/ \E o \in OpIds, itemId \in ItemIds, filename \in ExistsFileNames :
       zipFileExistsSafeName(o, itemId, filename)
  \/ \E o \in OpIds, outcome \in {"ok", "NotFound"} \cup HeadFailures : headObjectDone(o, outcome)
  \/ \E o \in OpIds, outcome \in {"ok"} \cup SignFailures : getSignedUrlDone(o, outcome)

Spec == Init /\ [][Next]_vars

\* the lifecycle alone, over every configuration
NextLifecycle ==
  \/ \E p \in InitIds, settings \in Settings : init(p, settings)
  \/ \E p \in InitIds, outcome \in {"ok"} \cup ProbeFailures : testS3ConnectionDone(p, outcome)

SpecLifecycle == Init /\ [][NextLifecycle]_vars

\* the key derivation alone, over every bounded file name

\* a lowercase and an uppercase letter, a digit, whitespace, the separator,
\* the dot and a punctuation character
Alphabet == {"a", "B", "1", " ", "/", ".", "="}

BoundedNames == UNION {[1..n -> Alphabet] : n \in 0..MaxNameLen}

\* "My Book (Part 1)/Chapter.MP3"
ExampleFileName ==
  <<"M", "y", " ", "B", "o", "o", "k", " ", "(", "P", "a", "r", "t", " ", "1", ")", "/",
    "C", "h", "a", "p", "t", "e", "r", ".", "M", "P", "3">>

\* "===.WAV"
NoAlnumFileName == <<"=", "=", "=", ".", "W", "A", "V">>

KeyFileNames == BoundedNames \cup {ExampleFileName, NoAlnumFileName}

\* a caller holds a file name
InitKey ==
  /\ s3Client = NullClient
  /\ bucket = NULL
  /\ isInitialized = FALSE
  /\ isS3Enabled = FALSE
  /\ inits = [p \in InitIds |-> IdleCall]
  /\ ops = [o \in OpIds |-> IdleCall]
  /\ objects = {}
  /\ lastInit = "none"
  /\ probed = {}
  /\ users = NoTable
  /\ migration = NoMigration
  /\ rows = [r \in RowIds |-> NewRow]
  /\ \E fileName \in KeyFileNames :
       ev = [op |-> "s3SafeFileName", phase |-> "none", step |-> "none",
             fileName |-> fileName]

\* this.s3SafeFileName(fileName)
deriveKey ==
  /\ ev.op = "s3SafeFileName" /\ ev.phase = "none"
  /\ UNCHANGED <<manager, inits, ops, objects, lastInit, probed, elsewhere>>
  /\ ev' = [op |-> "s3SafeFileName", phase |-> "return", step |-> "call",
            fileName |-> ev.fileName, key |-> s3SafeFileName(ev.fileName)]

NextKey == deriveKey

SpecKey == InitKey /\ [][NextKey]_vars

\* ------------------------------------------------------------------------
\* The permission migration: migrations/v2.31.0-add-default-permission.js
\* ------------------------------------------------------------------------

UserTypes == {"root", "admin", "user"}

\* the permissions column: SQL NULL, or a JSON text, here the sequence of its
\* members <<key, literal>> in the order they are written
NullColumn == [isNull |-> TRUE, text |-> <<>>]
JsonColumn(text) == [isNull |-> FALSE, text |-> text]

Columns ==
  {NullColumn,
   JsonColumn(<<>>),
   JsonColumn(<< <<"download", "true">> >>),
   JsonColumn(<< <<"saveToCloud", "true">> >>),
   JsonColumn(<< <<"saveToCloud", "false">>, <<"download", "false">> >>)}

UserRows == [type : UserTypes, permissions : Columns]

Tables == {NoTable} \cup {[exists |-> TRUE, rows |-> t] : t \in [UserIds -> UserRows]}

\* errors the database may reject a query with
QueryFailures == {"SQLITE_BUSY"}

\* JSON.parse: the object a text denotes, its properties in insertion order
JSONparse(text) ==
  [i \in DOMAIN text |-> [key |-> text[i][1], value |-> text[i][2] = "true"]]

\* JSON.stringify
JSONstringify(object) ==
  [i \in DOMAIN object |->
    <<object[i].key, IF object[i].value THEN "true" ELSE "false">>]

\* object[key] === undefined
isUndefined(object, key) == \A i \in DOMAIN object : object[i].key # key

\* object[key] = value, for a key the object does not have
setProperty(object, key, value) == Append(object, [key |-> key, value |-> value])

\* delete object[key]
deleteProperty(object, key) == SelectSeq(object, LAMBDA member : member.key # key)

\* user.permissions ? JSON.parse(user.permissions) : {}
parsePermissions(column) == IF column.isNull THEN <<>> ELSE JSONparse(column.text)

\* SELECT id, username, type, permissions FROM users WHERE type IN ('root', 'admin')
RECURSIVE selectRootAndAdmin(_, _)
selectRootAndAdmin(table, id) ==
  IF id > Len(table) THEN <<>>
  ELSE IF table[id].type \in {"root", "admin"}
    THEN <<[id |-> id, permissions |-> table[id].permissions]>>
           \o selectRootAndAdmin(table, id + 1)
    ELSE selectRootAndAdmin(table, id + 1)

\* the test that decides whether a user's row is rewritten
needsUpdate(dir, user) ==
  IF dir = "up"
    THEN isUndefined(parsePermissions(user.permissions), "saveToCloud")
    ELSE ~isUndefined(parsePermissions(user.permissions), "saveToCloud")

\* the permissions the UPDATE writes for a user
updatedPermissions(dir, user) ==
  IF dir = "up"
    THEN JsonColumn(JSONstringify(
           setProperty(parsePermissions(user.permissions), "saveToCloud", TRUE)))
    ELSE JsonColumn(JSONstringify(
           deleteProperty(parsePermissions(user.permissions), "saveToCloud")))

\* the for loop: the next selected user, from position from, whose row is rewritten
nextUpdate(dir, snapshot, from) ==
  LET pending == {j \in from..Len(snapshot) : needsUpdate(dir, snapshot[j])}
  IN IF pending = {} THEN 0 ELSE CHOOSE j \in pending : \A k \in pending : j <= k

\* the run ends: up / down resolves or rejects
completed(outcome, table) ==
  [NoMigration EXCEPT
     !.history = Append(migration.history,
                        [dir |-> migration.dir, outcome |-> outcome,
                         before |-> migration.before, after |-> table])]

\* the for loop goes on from position from, up to the next await or to the end
loopFrom(from, table) ==
  IF nextUpdate(migration.dir, migration.snapshot, from) = 0
    THEN completed("resolved", table)
    ELSE [migration EXCEPT !.pc = "update",
                           !.i = nextUpdate(migration.dir, migration.snapshot, from)]

\* up() or down() is called, up to await queryInterface.tableExists('users')
runMigration(dir) ==
  /\ migration.pc = "idle"
  /\ Len(migration.history) < MaxRuns
  /\ migration' = [migration EXCEPT !.pc = "tableExists", !.dir = dir, !.before = users]
  /\ UNCHANGED <<storage, users, rows>>

up == runMigration("up")

down == runMigration("down")

\* tableExists answers
tableExistsDone(outcome) ==
  /\ migration.pc = "tableExists"
  /\ migration' =
       IF outcome # "ok" THEN completed("rejected", users)
       ELSE IF users.exists THEN [migration EXCEPT !.pc = "select"]
       ELSE completed("resolved", users)
  /\ UNCHANGED <<storage, users, rows>>

\* the SELECT answers, and the loop runs up to its first UPDATE
selectDone(outcome) ==
  /\ migration.pc = "select"
  /\ migration' =
       IF outcome # "ok" THEN completed("rejected", users)
       ELSE LET snapshot == selectRootAndAdmin(users.rows, 1)
                first == nextUpdate(migration.dir, snapshot, 1)
            IN IF first = 0
                 THEN completed("resolved", users)
                 ELSE [migration EXCEPT !.pc = "update", !.snapshot = snapshot, !.i = first]
  /\ UNCHANGED <<storage, users, rows>>

\* an UPDATE answers: the row is written, or the error is caught and logged;
\* either way the loop goes on with the next user
updateDone(outcome) ==
  /\ migration.pc = "update"
  /\ users' =
       IF outcome = "ok"
         THEN [users EXCEPT
                 !.rows[migration.snapshot[migration.i].id].permissions =
                    updatedPermissions(migration.dir, migration.snapshot[migration.i])]
         ELSE users
  /\ migration' = loopFrom(migration.i + 1, users')
  /\ UNCHANGED <<storage, rows>>

InitMigration ==
  /\ s3Client = NullClient
  /\ bucket = NULL
  /\ isInitialized = FALSE
  /\ isS3Enabled = FALSE
  /\ inits = [p \in InitIds |-> IdleCall]
  /\ ops = [o \in OpIds |-> IdleCall]
  /\ objects = {}
  /\ lastInit = "none"
  /\ probed = {}
  /\ ev = [op |-> "none", phase |-> "none", step |-> "none"]
  /\ users \in Tables
  /\ migration = NoMigration
  /\ rows = [r \in RowIds |-> NewRow]

NextMigration ==
  \/ up
  \/ down
  \/ \E outcome \in {"ok"} \cup QueryFailures : tableExistsDone(outcome)
  \/ \E outcome \in {"ok"} \cup QueryFailures : selectDone(outcome)
  \/ \E outcome \in {"ok"} \cup QueryFailures : updateDone(outcome)

SpecMigration == InitMigration /\ [][NextMigration]_vars

\* ------------------------------------------------------------------------
\* The client's file row: components/tables/LibraryFilesTableRow.vue
\* ------------------------------------------------------------------------

\* timeout: 300000
SaveToCloudTimeout == 300000

\* this.$axios.$get(`/api/items/${libraryItemId}/file/${ino}/saveToCloud`, { timeout })
SaveToCloudRequest(r) == [type |-> "$get", file |-> r, timeout |-> SaveToCloudTimeout]

\* how a request settles: a response with success set, a response without,
\* a rejection carrying the server's message, a rejection by the timeout
Settlements == {"success", "unsuccessful", "error", "timeout"}

\* the toast saveToCloud shows for a settlement
toastFor(outcome) ==
  IF outcome = "success" THEN "success: Successfully saved to cloud storage"
  ELSE IF outcome = "unsuccessful" THEN "error: Failed to save to cloud"
  ELSE IF outcome = "error" THEN "error: " \o "message of the response"
  ELSE "error: " \o "timeout of 300000ms exceeded"

\* a guard that never holds
savingNever(r) == FALSE

\* if (this.savingsToCloud) return
savingAlready(r) == rows[r].savingsToCloud

\* a click on the button: saveToCloud() up to its return or to the await of $get
saveToCloud(r) ==
  /\ savingAlready(r) \/ rows[r].requests < MaxRequests
  /\ UNCHANGED <<manager, inits, ops, objects, lastInit, probed, users, migration>>
  /\ IF savingAlready(r)
       THEN /\ UNCHANGED rows
            /\ ev' = [op |-> "saveToCloud", phase |-> "return", step |-> "call", row |-> r,
                      before |-> rows[r], sent |-> <<>>]
       ELSE /\ rows' = [rows EXCEPT ![r].savingsToCloud = TRUE,
                                    ![r].inFlight = @ + 1,
                                    ![r].requests = @ + 1]
            /\ ev' = [op |-> "saveToCloud", phase |-> "await", step |-> "call", row |-> r,
                      before |-> rows[r], sent |-> <<SaveToCloudRequest(r)>>]

\* the request settles: try, catch and finally of saveToCloud()
saveToCloudDone(r, outcome) ==
  /\ rows[r].inFlight > 0
  /\ UNCHANGED <<manager, inits, ops, objects, lastInit, probed, users, migration>>
  /\ rows' = [rows EXCEPT ![r].savingsToCloud = FALSE,
                          ![r].inFlight = @ - 1,
                          ![r].toast = toastFor(outcome)]
  /\ ev' = [op |-> "saveToCloud", phase |-> "return", step |-> "resume", row |-> r,
            before |-> rows[r], answer |-> outcome, sent |-> <<>>]

NextClient ==
  \/ \E r \in RowIds : saveToCloud(r)
  \/ \E r \in RowIds, outcome \in Settlements : saveToCloudDone(r, outcome)

SpecClient == Init /\ [][NextClient]_vars

\* ------------------------------------------------------------------------
\* Properties
\* ------------------------------------------------------------------------

StoreOps == {"cacheZipFile", "cacheFile"}
SignedUrlOps == {"getSignedUrlForZipFile", "getSignedUrlForFile"}
ExistsOps == {"zipFileExists", "zipFileExistsSafeName"}
CacheOps == StoreOps \cup SignedUrlOps \cup ExistsOps

\* the step just taken is a call of init(), up to its return or first await
InitCalled == ev.op = "init" /\ ev.step = "call"

\* the step just taken is a call of a cache operation, up to its return or first await
OpCalled(kinds) == ev.op \in kinds /\ ev.step = "call"

\* the step just taken is the return of a cache operation after the store answered
OpResumed(kinds) == ev.op \in kinds /\ ev.step = "resume"

SomeSettingMissing(settings) ==
  \/ settings.cloudStorageS3Region = Missing
  \/ settings.cloudStorageS3Bucket = Missing
  \/ settings.cloudStorageS3AccessKey = Missing
  \/ settings.cloudStorageS3SecretKey = Missing

IsConfigurationError(result) ==
  /\ result.type = "throw"
  /\ result.error \in {Error("S3 storage requires region and bucket configuration"),
                       Error("S3 storage requires access key and secret key")}

\* the key a cache operation's arguments stand for
KeyOfCall ==
  IF ev.op \in {"cacheZipFile", "getSignedUrlForZipFile", "zipFileExists"}
    THEN getKey(ev.args.itemId)
  ELSE IF ev.op = "zipFileExistsSafeName" THEN s3SafeFileName(ev.args.itemId)
  ELSE s3SafeFileName(ev.args.fileName)

\* C1: an init() call that reads cloudStorageEnabled = false, whatever the state
\* it starts from, returns successfully, leaves the manager not Ready
\* (isInitialized false), constructs no client handle and sends no request.
C1_DisabledInitLeavesNotReady ==
  (InitCalled /\ ~ev.settings.cloudStorageEnabled) =>
    /\ ev.phase = "return"
    /\ ev.result = Returned(JsUndefined)
    /\ ~isInitialized
    /\ ~ev.constructed /\ s3Client = ev.before.s3Client
    /\ ev.sent = <<>>

\* C2: an init() call that reads cloudStorageEnabled = true and finds region,
\* bucket, access key or secret key missing throws a configuration error, leaves
\* the manager not Ready, constructs no client handle and sends no request.
C2_IncompleteInitLeavesNotReady ==
  (InitCalled /\ ev.settings.cloudStorageEnabled /\ SomeSettingMissing(ev.settings)) =>
    /\ ev.phase = "return"
    /\ IsConfigurationError(ev.result)
    /\ ~isInitialized
    /\ ~ev.constructed /\ s3Client = ev.before.s3Client
    /\ ev.sent = <<>>

\* C3: a cacheZipFile or cacheFile call made while isInitialized is false (never
\* initialized, disabled, failed, or the first init() still awaiting its probe)
\* throws 'S3 storage not initialized' at once and sends no request; no cache
\* operation is left awaiting the object store.
C3_StoreNotInitialized ==
  (OpCalled(StoreOps) /\ ~isInitialized) =>
    /\ ev.phase = "return"
    /\ ev.result = Thrown(NotInitializedError)
    /\ ev.sent = <<>>
    /\ \A o \in OpIds : ops[o].pc = "idle"

\* C3 witness: a store call was refused while an init() call awaited its probe
C3_Witness ==
  /\ OpCalled(StoreOps) /\ ~isInitialized /\ InitInFlight
  /\ ev.result = Thrown(NotInitializedError)

\* C4: with the manager Ready, zipFileExists answers false for an item whose key
\* holds no object and true for an item whose key holds one (after a store call
\* for that item returned successfully).
C4_ExistsTellsWhatIsStored ==
  (ev.op \in ExistsOps /\ ev.phase = "return" /\ isInitialized) =>
    ev.result = Returned(JsBool(<<bucket, KeyOfCall>> \in objects))

\* the expiry a signed URL is asked for: the argument, or 3600 when left out
ExpectedExpiresIn ==
  IF ev.args.expiresIn = Undefined THEN 3600 ELSE ev.args.expiresIn

\* C5: with the manager Ready, getSignedUrlFor* returns null without a signing
\* request when the head probe answers not-found; when the probe finds the
\* object, the signing request is for the configured bucket, the derived key and
\* the requested expiry (3600 when none is passed), and the URL returned is the
\* one signed for exactly that bucket, key and expiry.
C5_SignedUrlForBucketKeyExpiry ==
  /\ (OpResumed(SignedUrlOps) /\ ev.answer = "NotFound") =>
       ev.phase = "return" /\ ev.result = Returned(JsNull) /\ Len(ev.sent) = 1
  /\ (OpResumed(SignedUrlOps) /\ ev.phase = "await") =>
       /\ ev.answer = "ok"
       /\ ev.sent[2] = [type |-> "getSignedUrl", client |-> s3Client, Bucket |-> bucket,
                        Key |-> KeyOfCall, expiresIn |-> ExpectedExpiresIn]
  /\ (OpResumed(SignedUrlOps) /\ ev.phase = "return" /\ ev.answer = "ok") =>
       /\ Len(ev.sent) = 2
       /\ ev.result.type = "return" /\ ev.result.value.kind = "url"
       /\ ev.result.value.url.Bucket = ev.sent[2].Bucket
       /\ ev.result.value.url.Bucket \in Buckets \ {Missing}
       /\ ev.result.value.url.Key = KeyOfCall
       /\ ev.result.value.url.expiresIn = ExpectedExpiresIn

\* C5 witness: a URL was returned for a call that passed no expiry
C5_Witness ==
  /\ OpResumed(SignedUrlOps) /\ ev.phase = "return" /\ ev.answer = "ok"
  /\ ev.args.expiresIn = Undefined
  /\ ev.result.value.url.expiresIn = 3600

\* C6: in getSignedUrlFor*, a head-probe failure or a signing failure that is
\* not a not-found is thrown to the caller as that very error; it is never turned
\* into null.
C6_SignedUrlFailureSurfaced ==
  (OpResumed(SignedUrlOps) /\ ev.phase = "return" /\ ev.answer \notin {"ok", "NotFound"}) =>
    ev.result = Thrown(ServiceError(ev.answer))

\* C8: an init() call made while the manager is already Ready with the same
\* valid configuration, no other init() in flight, is a no-op: it constructs no
\* client handle and sends no second bucket probe, and the manager stays Ready.
C8_SecondInitIsNoOp ==
  (/\ InitCalled
   /\ ev.before.isInitialized /\ ~ev.before.initInFlight
   /\ ev.settings.cloudStorageEnabled /\ ~SomeSettingMissing(ev.settings)
   /\ S3Client(ev.settings) = ev.before.s3Client
   /\ ev.settings.cloudStorageS3Bucket = ev.before.bucket) =>
    /\ isInitialized
    /\ ~ev.constructed
    /\ ev.sent = <<>>

\* C9: a cache operation called while an init() call is in flight (client handle
\* assigned, bucket probe unanswered) returns at its not-initialized guard and
\* sends no request.
C9_NoRequestDuringInit ==
  (OpCalled(CacheOps) /\ InitInFlight) =>
    /\ ev.phase = "return"
    /\ ev.sent = <<>>

\* C10: once the init() call that finished last has failed (configuration or
\* connectivity), a cache operation returns at its not-initialized guard and
\* sends no request, also when an earlier init() call had succeeded.
C10_NoRequestAfterFailedInit ==
  (OpCalled(CacheOps) /\ lastInit = "failed") =>
    /\ ev.phase = "return"
    /\ ev.sent = <<>>

\* C11: a zipFileExists or getSignedUrlFor* call made while isInitialized is
\* false fails at once with the not-initialized error, which is neither the
\* result false nor the result null, and sends no head probe or signing request.
C11_NotReadyFailsFast ==
  (OpCalled(SignedUrlOps \cup ExistsOps) /\ ~isInitialized) =>
    /\ ev.phase = "return"
    /\ ev.result = Thrown(NotInitializedError)
    /\ ev.sent = <<>>

\* the step just taken is an application of s3SafeFileName
KeyDerived == ev.op = "s3SafeFileName" /\ ev.phase = "return"

\* C12: the key s3SafeFileName returns never starts with a forward slash,
\* whatever the file name.
C12_KeyNeverStartsWithSlash ==
  KeyDerived => (ev.key = <<>> \/ Head(ev.key) # "/")

BodyChars == LowerSet \cup DigitSet \cup {"-", "/"}
ExtChars == LowerSet \cup DigitSet

\* a body of lowercase letters, digits, dashes and slashes, then at most one
\* extension: a dot followed by lowercase letters and digits only
IsBodyThenExt(key) ==
  \E n \in 0..Len(key) :
    /\ \A i \in 1..n : key[i] \in BodyChars
    /\ \/ n = Len(key)
       \/ /\ key[n + 1] = "."
          /\ \A i \in (n + 2)..Len(key) : key[i] \in ExtChars

\* C13: the key s3SafeFileName returns is a body of lowercase ASCII letters,
\* digits, dashes and forward slashes, optionally followed by one extension that
\* is a dot and then lowercase ASCII letters and digits only; no uppercase
\* letter, whitespace or other character appears in it.
C13_KeyCharacters ==
  KeyDerived => IsBodyThenExt(ev.key)

\* C13 witness: the key derived from "My Book (Part 1)/Chapter.MP3", a name with
\* uppercase letters, whitespace, punctuation, a slash and an uppercase extension
C13_Witness ==
  /\ KeyDerived
  /\ ev.fileName = ExampleFileName
  /\ Len(ev.key) = 27
  /\ SubSeq(ev.key, 24, 27) = <<".", "m", "p", "3">>
  /\ \E i \in DOMAIN ev.key : ev.key[i] = "-"

\* "my-book-part-1/chapter.mp3"
ExampleKey ==
  <<"m", "y", "-", "b", "o", "o", "k", "-", "p", "a", "r", "t", "-", "1", "/",
    "c", "h", "a", "p", "t", "e", "r", ".", "m", "p", "3">>

\* C14: s3SafeFileName maps "My Book (Part 1)/Chapter.MP3" to
\* "my-book-part-1/chapter.mp3", and in no key does a dash (what a run of removed
\* punctuation and whitespace becomes) stand directly before or after a slash.
C14_NoDashNextToSlash ==
  KeyDerived =>
    /\ ev.fileName = ExampleFileName => ev.key = ExampleKey
    /\ \A i \in 1..(Len(ev.key) - 1) :
         /\ ~(ev.key[i] = "-" /\ ev.key[i + 1] = "/")
         /\ ~(ev.key[i] = "/" /\ ev.key[i + 1] = "-")

\* the body and the extension of a file name: split at the last dot, no
\* extension when there is no dot or the dot is the first character
HasExt(fileName) == lastIndexOf(fileName, ".") > 0

BodyOf(fileName) ==
  IF HasExt(fileName) THEN SubSeq(fileName, 1, lastIndexOf(fileName, ".")) ELSE fileName

\* the extension in lowercase, without any character other than a-z, 0-9 and the dot
SanitizedExtOf(fileName) ==
  IF HasExt(fileName)
    THEN SelectSeq(toLowerCase(SubSeq(fileName, lastIndexOf(fileName, ".") + 1, Len(fileName))),
                   LAMBDA c : c \in ExtChars \cup {"."})
    ELSE <<>>

NoAlnum(s) == \A i \in DOMAIN s : s[i] \notin LowerSet \cup UpperSet \cup DigitSet

\* C19: for a file name whose body holds no ASCII letter or digit (slashes and
\* whitespace included), s3SafeFileName returns just the sanitized extension,
\* and the empty string when there is no extension.
C19_NoAlnumBodyGivesExtension ==
  (KeyDerived /\ NoAlnum(BodyOf(ev.fileName))) =>
    ev.key = SanitizedExtOf(ev.fileName)

\* C15: with the manager Ready, a store call with a buffer sends exactly one put
\* request carrying the payload and a declared content type, and no multipart
\* upload; with any other payload it sends one multipart upload and no put; the
\* key is returned only after that request completed, the object is then in the
\* store, and the key returned is the key the object was written under.
C15_StoreDispatchesOnPayload ==
  /\ (OpCalled(StoreOps) /\ isInitialized) =>
       /\ ev.phase = "await"
       /\ Len(ev.sent) = 1
       /\ ev.sent[1].Key = KeyOfCall
       /\ ev.sent[1].Body = ev.args.data
       /\ IF ev.args.data = "buffer"
            THEN ev.sent[1].type = "PutObject" /\ ev.sent[1].ContentType # NoContentType
            ELSE ev.sent[1].type = "Upload"
  /\ (OpResumed(StoreOps) /\ ev.answer = "ok") =>
       /\ ev.phase = "return"
       /\ Len(ev.sent) = 1
       /\ ev.result = Returned(JsString(ev.sent[1].Key))
       /\ <<ev.sent[1].Bucket, ev.sent[1].Key>> \in objects

\* C16: when the put or the multipart upload of a store call fails, the call
\* throws the failure of the object store (the caller receives that error and no
\* other), returns no key, and sends no second request.
C16_UploadFailureSurfaced ==
  (OpResumed(StoreOps) /\ ev.answer # "ok") =>
    /\ ev.phase = "return"
    /\ ev.result = Thrown(ServiceError(ev.answer))
    /\ Len(ev.sent) = 1

\* the terminal outcomes of a signed-URL request
IsAbsent(result) == result = Returned(JsNull)
IsSigned(result) == result.type = "return" /\ result.value.kind = "url"
IsSignError(result, cause) == result = Thrown(ServiceError(cause))
IsNotReady(result) == result = Thrown(NotInitializedError)

\* C18: a getSignedUrlFor* call ends as Absent (null), Signed (a URL), SignError
\* (the failure of the store, thrown) or NotReady (the not-initialized error); a
\* signing request is sent only once the head probe of that call, for the same
\* bucket and key, has found the object, and never after a probe that failed or
\* answered not-found.
C18_SignedUrlRequestOutcomes ==
  /\ (OpCalled(SignedUrlOps) /\ ev.phase = "return") =>
       IsNotReady(ev.result) \/ IsAbsent(ev.result)
  /\ (OpCalled(SignedUrlOps) /\ ev.phase = "await") =>
       Len(ev.sent) = 1 /\ ev.sent[1].type = "HeadObject"
  /\ (OpResumed(SignedUrlOps) /\ ev.phase = "return") =>
       \/ IsAbsent(ev.result) /\ ev.answer = "NotFound"
       \/ IsSigned(ev.result) /\ ev.answer = "ok"
       \/ IsSignError(ev.result, ev.answer) /\ ev.answer \notin {"ok", "NotFound"}
  /\ (OpResumed(SignedUrlOps) /\ Len(ev.sent) = 2) =>
       /\ ev.sent[1].type = "HeadObject"
       /\ ev.sent[2].type = "getSignedUrl"
       /\ ev.sent[2].Bucket = ev.sent[1].Bucket
       /\ ev.sent[2].Key = ev.sent[1].Key
       /\ ev.phase = "await" => ev.answer = "ok"
  /\ (OpResumed(SignedUrlOps) /\ ev.phase = "return" /\ Len(ev.sent) = 1) =>
       ev.answer # "ok"

FileNameOps == {"cacheFile", "getSignedUrlForFile"}

\* C20: for a file name whose sanitized key is the empty string, cacheFile sends
\* no put or multipart upload and getSignedUrlForFile sends no head probe or
\* signing request: no request with an empty Key leaves the manager.
C20_EmptyKeyGuarded ==
  (ev.op \in FileNameOps /\ s3SafeFileName(ev.args.fileName) = <<>>) =>
    /\ ev.sent = <<>>
    /\ \A o \in OpIds : ops[o].pc # "idle" => ops[o].key # <<>>

\* C17: whenever the manager is Ready (isInitialized true), the client handle and
\* the bucket it holds are a pair whose bucket probe has completed successfully,
\* after any sequence of init() calls with any configurations, overlapping ones
\* whose probes answer in any order included.
C17_ReadyHoldsProbedPair ==
  isInitialized => <<s3Client, bucket>> \in probed

\* item identifiers beyond those the calls of the model pass
WideItemIds == UNION {[1..n -> {"i", "1", "2", "/", "."}] : n \in 1..MaxNameLen}

\* the three operations derive one key from one identifier, whatever file name
\* zipFileExists is given, in the archive-keyed and in the filename-keyed revision
OneKeyPerItem ==
  \A itemId \in ItemIds \cup FileNames \cup WideItemIds :
    \A filename \in ExistsFileNames \cup FileNames :
      /\ zipFileExistsKey(itemId, filename) = getKey(itemId)
      /\ zipFileExistsSafeNameKey(itemId, filename) = s3SafeFileName(itemId)

\* getKey yields different keys for different identifiers
GetKeyInjective ==
  \A itemId \in ItemIds \cup WideItemIds :
    \A other \in ItemIds \cup WideItemIds :
      itemId # other => getKey(itemId) # getKey(other)

ArchiveOps == {"cacheZipFile", "getSignedUrlForZipFile", "zipFileExists"}

HasSaveToCloud(row) ==
  \E i \in DOMAIN row.permissions.text : row.permissions.text[i][1] = "saveToCloud"

\* the up runs that completed on a database with a users table
CompletedUps ==
  {k \in DOMAIN migration.history :
     /\ migration.history[k].dir = "up"
     /\ migration.history[k].outcome = "resolved"
     /\ migration.history[k].before.exists}

\* C22: after up has completed on a database with a users table, every user of
\* type root or admin has a saveToCloud entry in its permissions, the rows of
\* users of other types are as before, a row that already had a saveToCloud
\* entry is as before, and an up run that follows an up run changes nothing.
C22_UpAddsSaveToCloud ==
  \A k \in CompletedUps :
    LET before == migration.history[k].before.rows
        after == migration.history[k].after.rows
    IN /\ \A u \in UserIds :
            /\ after[u].type = before[u].type
            /\ after[u].type \in {"root", "admin"} => HasSaveToCloud(after[u])
            /\ after[u].type \notin {"root", "admin"} => after[u] = before[u]
            /\ HasSaveToCloud(before[u]) => after[u] = before[u]
       /\ (k - 1) \in CompletedUps => migration.history[k].after = migration.history[k].before

\* the step just taken is a click on the save-to-cloud button of a file row
Clicked == ev.op = "saveToCloud" /\ ev.step = "call"

\* the step just taken is the settling of a saveToCloud request
Settled == ev.op = "saveToCloud" /\ ev.step = "resume"

\* C23: a file row has at most one saveToCloud request in flight; a click while
\* savingsToCloud is true issues no request; savingsToCloud is true exactly
\* while a request is outstanding; once the request has settled (success
\* response, unsuccessful response, error or timeout) savingsToCloud is false
\* again, and a click then issues a new request.
C23_OneSaveToCloudInFlight ==
  /\ \A r \in RowIds :
       /\ rows[r].inFlight <= 1
       /\ rows[r].savingsToCloud <=> rows[r].inFlight = 1
  /\ (Clicked /\ ev.before.savingsToCloud) =>
       /\ ev.sent = <<>>
       /\ rows[ev.row] = ev.before
  /\ (Clicked /\ ~ev.before.savingsToCloud) =>
       /\ Len(ev.sent) = 1
       /\ rows[ev.row].savingsToCloud
       /\ rows[ev.row].requests = ev.before.requests + 1
  /\ Settled =>
       /\ ev.answer \in {"success", "unsuccessful", "error", "timeout"}
       /\ ~rows[ev.row].savingsToCloud
       /\ rows[ev.row].inFlight = 0

\* C23 witness: a click was ignored while the second request of a row was
\* outstanding, the first one having ended in the timeout
C23_Witness ==
  /\ Clicked /\ ev.before.savingsToCloud /\ ev.sent = <<>>
  /\ rows[ev.row].requests = 2
  /\ rows[ev.row].inFlight = 1
  /\ rows[ev.row].toast = "error: timeout of 300000ms exceeded"

====
